---- MODULE Spec2Model ----
(***************************************************************************)
(* KnownRounds (knownRounds/knownRounds.go): a circular bit buffer indexed *)
(* by round id, with the cursors firstUnchecked and lastChecked.           *)
(*                                                                         *)
(* Round ids are uint64 in the source.  TLC's integers are 32 bits wide, so*)
(* the modulus of the unsigned arithmetic is RoundMod = 2^w with a   *)
(* narrower width; every wrap of the source (rid - Len below zero, the *)
(* signed reinterpretation int(x)) is kept, relative to that modulus.      *)
(***************************************************************************)
EXTENDS Integers, Sequences, FiniteSets, TLC

\* ---- bounds of the model ----
MaxBlock == 3   \* round ids given to the operations lie in words 0..MaxBlock
MaxList == 3    \* lists of notifications have up to MaxList entries
MaxSize == 30   \* maxSize of BuildNotificationCSV is 0..MaxSize

\* ---- program constants ----
WordBits == 64

\* format/message.go: the serial of a Message and its two payloads
TotalLen == 512
PayloadLen == 256
payloadAStart == 0
payloadAEnd == payloadAStart + PayloadLen
payloadBStart == payloadAEnd
payloadBEnd == payloadBStart + PayloadLen

\* modulus of id.Round arithmetic (2^64 in the source, see the header)
RoundMod == 2 ^ 20

\* uint64 arithmetic of id.Round: reduce modulo 2^w
U64(x) == x % RoundMod

\* int(x) of an unsigned value: two's complement reinterpretation
ToInt(x) == IF x >= RoundMod \div 2 THEN x - RoundMod ELSE x

\* Go's integer division and remainder truncate toward zero
GoDiv(a, b) == IF a >= 0 THEN a \div b ELSE -((-a) \div b)
GoRem(a, b) == IF a >= 0 THEN a % b ELSE -((-a) % b)

abs(n) == IF n < 0 THEN ToInt(U64(-n)) ELSE n

\* ---- uint64Buff: a sequence of words; a word is the set of its set bits, ----
\* ---- bit i of a word being (word >> (63 - i)) & 1                        ----
BuffLen(buf) == Len(buf) * WordBits

convertLoc(buf, pos) ==
    LET p == pos % BuffLen(buf) IN <<p \div WordBits, p % WordBits>>

get(buf, pos) ==
    LET loc == convertLoc(buf, pos) IN loc[2] \in buf[loc[1] + 1]

set(buf, pos) ==
    LET loc == convertLoc(buf, pos)
    IN  [buf EXCEPT ![loc[1] + 1] = @ \cup {loc[2]}]

clear(buf, pos) ==
    LET loc == convertLoc(buf, pos)
    IN  [buf EXCEPT ![loc[1] + 1] = @ \ {loc[2]}]

clearRange(buf, start, end) ==
    LET C == BuffLen(buf)
        s == start % C
        n == (end - start) % C
        cleared == {(s + i) % C : i \in 0..(n - 1)}
    IN  [k \in 1..Len(buf) |->
            buf[k] \ {p % WordBits : p \in {q \in cleared : q \div WordBits = k - 1}}]

\* number of words from the word of start to the word of end, circularly
deltaBlocks(buf, start, end) ==
    ((convertLoc(buf, end)[1] - convertLoc(buf, start)[1]) % Len(buf)) + 1

\* the bits start, start+1, ..., end-1 of buf moved to bit 0 of a new buffer of
\* delta(start, end) words
copy(buf, start, end) ==
    LET C == BuffLen(buf)
        from == start % C
        n == (end - start) % C
    IN  [k \in 1..deltaBlocks(buf, start, end) |->
            {b \in 0..(WordBits - 1) :
                /\ WordBits * (k - 1) + b < n
                /\ get(buf, from + WordBits * (k - 1) + b)}]

extend(buf, n) ==
    IF Len(buf) >= n THEN buf
    ELSE [k \in 1..n |-> IF k <= Len(buf) THEN buf[k] ELSE {}]

\* pointwise (NOT self) OR other over the words both buffers have
implies(self, other) ==
    [k \in 1..(IF Len(self) < Len(other) THEN Len(self) ELSE Len(other)) |->
        ((0..(WordBits - 1)) \ self[k]) \cup other[k]]

\* the eight bytes of a word, most significant first
WordBytes(w) ==
    LET bit(i) == IF i \in w THEN 1 ELSE 0
    IN  [j \in 1..8 |->
            LET b == 8 * (j - 1)
            IN  bit(b) * 128 + bit(b + 1) * 64 + bit(b + 2) * 32 + bit(b + 3) * 16
                + bit(b + 4) * 8 + bit(b + 5) * 4 + bit(b + 6) * 2 + bit(b + 7)]

\* the set bits of a byte, most significant first
ByteBits == [v \in 0..255 |-> {k \in 0..7 : (v \div (2 ^ (7 - k))) % 2 = 1}]

BytesWord(bs) ==
    UNION {{8 * (j - 1) + k : k \in ByteBits[bs[j]]} : j \in 1..8}

\* big-endian concatenation of the words into 8 * W bytes
marshal(buf) ==
    [n \in 1..(8 * Len(buf)) |-> WordBytes(buf[((n - 1) \div 8) + 1])[((n - 1) % 8) + 1]]

\* the inverse of marshal, over the whole words of the bytes
unmarshal(b) ==
    [n \in 1..(Len(b) \div 8) |-> BytesWord(SubSeq(b, 8 * (n - 1) + 1, 8 * n))]

\* the size check of unmarshal: the length is a multiple of 8
unmarshalSized(b) == Len(b) % 8 = 0

\* Go's copy(dst, src): the first min(len(dst), len(src)) elements
copyInto(dst, src) ==
    [k \in 1..Len(dst) |-> IF k <= Len(src) THEN src[k] ELSE dst[k]]

\* ---- KnownRounds ----
NewKnownRound(roundCapacity) ==
    [bitStream |-> [k \in 1..((roundCapacity + 63) \div 64) |-> {}],
     firstUnchecked |-> 0,
     lastChecked |-> 0,
     fuPos |-> 0]

KLen(kr) == Len(kr.bitStream) * 64

getBitStreamPos(kr, rid) ==
    LET delta == IF rid < kr.firstUnchecked
                 THEN -ToInt(U64(kr.firstUnchecked - rid))
                 ELSE ToInt(U64(rid - kr.firstUnchecked))
    IN  GoRem(kr.fuPos + delta, KLen(kr))

\* mutant: the prefix test includes firstUnchecked itself
Checked_inclusive(kr, rid) ==
    IF rid <= kr.firstUnchecked THEN TRUE
    ELSE IF rid > kr.lastChecked THEN FALSE
    ELSE get(kr.bitStream, getBitStreamPos(kr, rid))

Checked(kr, rid) ==
    IF rid < kr.firstUnchecked THEN TRUE
    ELSE IF rid > kr.lastChecked THEN FALSE
    ELSE get(kr.bitStream, getBitStreamPos(kr, rid))

RECURSIVE migrateScan(_, _)
migrateScan(kr, rid) ==
    IF get(kr.bitStream, getBitStreamPos(kr, rid)) /\ rid < kr.lastChecked
    THEN migrateScan(kr, U64(rid + 1))
    ELSE rid

\* mutant: firstUnchecked is moved to rid without looking at the bits
migrateFirstUnchecked_noScan(kr, rid) ==
    [kr EXCEPT !.fuPos = getBitStreamPos(kr, rid), !.firstUnchecked = rid]

migrateFirstUnchecked(kr, rid) ==
    LET r == migrateScan(kr, rid)
    IN  [kr EXCEPT !.fuPos = getBitStreamPos(kr, r), !.firstUnchecked = r]

\* mutant: the reset branch forgets to move lastChecked
Forward_keepsLast(kr, rid) ==
    IF rid > kr.lastChecked
    THEN [kr EXCEPT !.firstUnchecked = rid, !.fuPos = rid % 64]
    ELSE IF rid >= kr.firstUnchecked
    THEN migrateFirstUnchecked(kr, rid)
    ELSE kr

\* mutant: the reset branch forgets to reduce fuPos into a word
Forward_noMod(kr, rid) ==
    IF rid > kr.lastChecked
    THEN [kr EXCEPT !.firstUnchecked = rid, !.lastChecked = rid, !.fuPos = rid]
    ELSE IF rid >= kr.firstUnchecked
    THEN migrateFirstUnchecked(kr, rid)
    ELSE kr

\* mutant: a round before firstUnchecked is migrated to as well
Forward_back(kr, rid) ==
    IF rid > kr.lastChecked
    THEN [kr EXCEPT !.firstUnchecked = rid, !.lastChecked = rid, !.fuPos = rid % 64]
    ELSE migrateFirstUnchecked(kr, rid)

\* mutant: the reset branch anchors fuPos at the start of the word
Forward_wordStart(kr, rid) ==
    IF rid > kr.lastChecked
    THEN [kr EXCEPT !.firstUnchecked = rid, !.lastChecked = rid, !.fuPos = 0]
    ELSE IF rid >= kr.firstUnchecked
    THEN migrateFirstUnchecked(kr, rid)
    ELSE kr

Forward(kr, rid) ==
    IF rid > kr.lastChecked
    THEN [kr EXCEPT !.firstUnchecked = rid, !.lastChecked = rid, !.fuPos = rid % 64]
    ELSE IF rid >= kr.firstUnchecked
    THEN migrateFirstUnchecked(kr, rid)
    ELSE kr

\* lines 162-170 of check: set the bit, extend lastChecked
checkExtend(kr, rid, pos) ==
    LET k1 == [kr EXCEPT !.bitStream = set(@, pos)]
    IN  IF rid > k1.lastChecked
        THEN [k1 EXCEPT !.bitStream =
                            clearRange(@, getBitStreamPos(k1, U64(k1.lastChecked + 1)), pos),
                        !.lastChecked = rid]
        ELSE k1

\* lines 172-181 of check: the checked round is the one firstUnchecked names
checkAdvance(kr, rid, pos) ==
    IF getBitStreamPos(kr, kr.firstUnchecked) = pos
    THEN IF getBitStreamPos(kr, kr.lastChecked) = pos
         THEN LET newPos == getBitStreamPos(kr, U64(rid + 1))
              IN  [kr EXCEPT !.fuPos = newPos,
                             !.firstUnchecked = U64(rid + 1),
                             !.lastChecked = U64(rid + 1),
                             !.bitStream = clear(@, newPos)]
         ELSE migrateFirstUnchecked(kr, rid)
    ELSE kr

\* mutant: a lapped firstUnchecked is left where it is
checkLapse_none(kr, rid) == kr

\* lines 183-189 of check: rid lapped firstUnchecked
checkLapse(kr, rid) ==
    IF rid > kr.firstUnchecked /\ U64(rid - kr.firstUnchecked) >= KLen(kr)
    THEN LET newFu == U64(rid + 1 - KLen(kr))
             k1 == [kr EXCEPT !.fuPos = getBitStreamPos(kr, newFu),
                              !.firstUnchecked = newFu]
         IN  migrateFirstUnchecked(k1, rid)
    ELSE kr

\* mutant: the early return also covers rid = firstUnchecked
check_offByOne(kr, rid) ==
    IF rid <= kr.firstUnchecked THEN kr
    ELSE LET pos == getBitStreamPos(kr, rid)
             k1 == checkExtend(kr, rid, pos)
             k2 == checkAdvance(k1, rid, pos)
             k3 == checkLapse(k2, rid)
         IN  [k3 EXCEPT !.bitStream = set(@, pos)]

check(kr, rid) ==
    IF rid < kr.firstUnchecked THEN kr
    ELSE LET pos == getBitStreamPos(kr, rid)
             k1 == checkExtend(kr, rid, pos)
             k2 == checkAdvance(k1, rid, pos)
             k3 == checkLapse(k2, rid)
         IN  [k3 EXCEPT !.bitStream = set(@, pos)]

\* the scope test of Check and ForceCheck (lines 136 and 150)
OutOfScope(kr, rid) ==
    GoDiv(abs(ToInt(U64(kr.lastChecked - rid))), Len(kr.bitStream) * 64) > 0

ForceCheckResult(kr, rid) ==
    IF OutOfScope(kr, rid)
    THEN check(Forward(kr, U64(rid - Len(kr.bitStream) * 64)), rid)
    ELSE check(kr, rid)

\* ---- the snapshot codec ----
\* encoding/json writes a []byte as a base64 string (standard alphabet, padded).
\* A character is the number 0..63 of its place in the alphabet, '=' is Pad.
Pad == 64

B64Encode(b) ==
    LET n == Len(b)
        groups == (n + 2) \div 3
        byteAt(i) == IF i <= n THEN b[i] ELSE 0
        group(g) == byteAt(3 * g + 1) * 65536 + byteAt(3 * g + 2) * 256 + byteAt(3 * g + 3)
    IN  [m \in 1..(4 * groups) |->
            LET g == (m - 1) \div 4
                k == (m - 1) % 4
            IN  IF g = groups - 1 /\ n % 3 # 0 /\ k > n % 3
                THEN Pad
                ELSE (group(g) \div (64 ^ (3 - k))) % 64]

B64Valid(c) ==
    /\ Len(c) % 4 = 0
    /\ \A m \in 1..Len(c) : c[m] = Pad => m > Len(c) - 2 /\ \A q \in m..Len(c) : c[q] = Pad

B64Decode(c) ==
    LET groups == Len(c) \div 4
        pads == Cardinality({m \in 1..Len(c) : c[m] = Pad})
        val(m) == IF c[m] = Pad THEN 0 ELSE c[m]
        group(g) == val(4 * g + 1) * 262144 + val(4 * g + 2) * 4096
                        + val(4 * g + 3) * 64 + val(4 * g + 4)
    IN  [i \in 1..(3 * groups - pads) |->
            (group((i - 1) \div 3) \div (256 ^ (2 - ((i - 1) % 3)))) % 256]

\* a JSON text: an object with the fields of DiskKnownRounds, or other text
NotJson ==
    [kind |-> "text", BitStream |-> [type |-> "string", elems |-> <<>>],
     FirstUnchecked |-> 0, LastChecked |-> 0]

\* json.Marshal(dkr) with BitStream declared []byte
JsonMarshal(dkr) ==
    [kind |-> "object",
     BitStream |-> [type |-> "string", elems |-> B64Encode(dkr.BitStream)],
     FirstUnchecked |-> dkr.FirstUnchecked,
     LastChecked |-> dkr.LastChecked]

\* json.Unmarshal(data, dkr): a string is base64 of the bytes, an array gives
\* the bytes one number each
JsonUnmarshal(data) ==
    LET bs == data.BitStream
    IN  IF /\ data.kind = "object"
           /\ IF bs.type = "string" THEN B64Valid(bs.elems)
              ELSE \A m \in 1..Len(bs.elems) : bs.elems[m] \in 0..255
        THEN [err |-> FALSE,
              dkr |-> [BitStream |-> IF bs.type = "string" THEN B64Decode(bs.elems)
                                     ELSE bs.elems,
                       FirstUnchecked |-> data.FirstUnchecked,
                       LastChecked |-> data.LastChecked]]
        ELSE [err |-> TRUE,
              dkr |-> [BitStream |-> <<>>, FirstUnchecked |-> 0, LastChecked |-> 0]]

\* the words Marshal copies: from the word of firstUnchecked on
compressed(kr) ==
    LET startPos == getBitStreamPos(kr, kr.firstUnchecked)
        endPos == getBitStreamPos(kr, kr.lastChecked)
        length == deltaBlocks(kr.bitStream, startPos, endPos)
        startBlock == convertLoc(kr.bitStream, startPos)[1]
    IN  [i \in 1..length |->
            kr.bitStream[((i - 1 + startBlock) % Len(kr.bitStream)) + 1]]

Marshal(kr) ==
    JsonMarshal([BitStream |-> marshal(compressed(kr)),
                 FirstUnchecked |-> kr.firstUnchecked,
                 LastChecked |-> kr.lastChecked])

\* mutant: a buffer of exactly the incoming size is refused
unmarshalInto_strict(kr, dkr, incoming) ==
    IF Len(kr.bitStream) # 0 /\ ~(Len(kr.bitStream) > Len(incoming))
    THEN [err |-> "size", kr |-> kr]
    ELSE LET stored == IF Len(kr.bitStream) = 0 THEN incoming
                       ELSE copyInto(kr.bitStream, incoming)
         IN  [err |-> "none",
              kr |-> [bitStream |-> copyInto(stored, incoming),
                      firstUnchecked |-> dkr.FirstUnchecked,
                      lastChecked |-> dkr.LastChecked,
                      fuPos |-> dkr.FirstUnchecked % 64]]

\* lines 92-115 of Unmarshal: store the incoming words and the cursors
\* mutant: the cursors are copied over before the size is tested
unmarshalInto_early(kr, dkr, incoming) ==
    IF Len(kr.bitStream) # 0 /\ ~(Len(kr.bitStream) >= Len(incoming))
    THEN [err |-> "size",
          kr |-> [kr EXCEPT !.firstUnchecked = dkr.FirstUnchecked,
                            !.lastChecked = dkr.LastChecked,
                            !.fuPos = dkr.FirstUnchecked % 64]]
    ELSE LET stored == IF Len(kr.bitStream) = 0 THEN incoming
                       ELSE copyInto(kr.bitStream, incoming)
         IN  [err |-> "none",
              kr |-> [bitStream |-> copyInto(stored, incoming),
                      firstUnchecked |-> dkr.FirstUnchecked,
                      lastChecked |-> dkr.LastChecked,
                      fuPos |-> dkr.FirstUnchecked % 64]]

unmarshalInto(kr, dkr, incoming) ==
    IF Len(kr.bitStream) # 0 /\ ~(Len(kr.bitStream) >= Len(incoming))
    THEN [err |-> "size", kr |-> kr]
    ELSE LET stored == IF Len(kr.bitStream) = 0 THEN incoming
                       ELSE copyInto(kr.bitStream, incoming)
         IN  [err |-> "none",
              kr |-> [bitStream |-> copyInto(stored, incoming),
                      firstUnchecked |-> dkr.FirstUnchecked,
                      lastChecked |-> dkr.LastChecked,
                      fuPos |-> dkr.FirstUnchecked % 64]]

unmarshalParsed(kr, parsed, truncates) ==
    IF parsed.err THEN [err |-> "json", kr |-> kr]
    ELSE IF ~unmarshalSized(parsed.dkr.BitStream) /\ ~truncates
    THEN [err |-> "panic", kr |-> kr]
    ELSE unmarshalInto(kr, parsed.dkr, unmarshal(parsed.dkr.BitStream))

\* Unmarshal: err is "none", "json" (line 87), "size" (line 104) or "panic"
\* (the size check of unmarshal, which has no error to return at line 90, when
\* it does not truncate)
Unmarshal(kr, data, truncates) ==
    unmarshalParsed(kr, JsonUnmarshal(data), truncates)

\* ---- RangeUnchecked ----
MaxUint64 == RoundMod - 1

\* the functions handed in as roundCheck, by name
RoundChecks == {"odd", "all"}

roundCheck(f, i) ==
    CASE f = "all" -> TRUE
      [] f = "odd" -> i % 2 = 1
      [] OTHER -> FALSE

\* mutant: the budget test lets one more call through
budgetSpent_late(numChecked, maxChecked) == numChecked > maxChecked

\* numChecked >= maxChecked, the test at the head of both loops
budgetSpent(numChecked, maxChecked) == numChecked >= maxChecked

lower(i, earliestChecked) == IF i < earliestChecked THEN i ELSE earliestChecked

\* the locals of RangeUnchecked, with the rounds given to roundCheck (calls)
\* and the rounds the second loop reached with budget left (scanned); no round
\* is visited twice, so the number of calls is the size of calls
RangeStart ==
    [numChecked |-> 0, earliestChecked |-> MaxUint64, calls |-> {},
     scanned |-> {}, returned |-> FALSE]

\* the loop over the rounds before firstUnchecked; it ends after at most
\* maxChecked + 1 rounds
RECURSIVE rangeBefore(_, _, _, _, _)
rangeBefore(kr, f, maxChecked, i, s) ==
    IF ~(i < kr.firstUnchecked) THEN s
    ELSE IF budgetSpent(s.numChecked, maxChecked)
    THEN [s EXCEPT !.earliestChecked = lower(i, @), !.returned = TRUE]
    ELSE rangeBefore(kr, f, maxChecked, i + 1,
            [s EXCEPT !.earliestChecked = IF ~roundCheck(f, i) THEN lower(i, @) ELSE @,
                      !.calls = @ \cup {i},
                      !.numChecked = @ + 1])

Lowest(S) == CHOOSE x \in S : \A y \in S : x <= y

\* The loop over the rounds newestRound..lastChecked, as the whole it adds up
\* to: a round with Checked(i) false is passed over (continue) and only lowers
\* earliestChecked; a round with Checked(i) true (known) is given to roundCheck
\* and counted; the loop returns at the first round at which the budget test
\* holds.

\* the first round at which the budget test holds, if there is one
windowStop(maxChecked, numChecked, rounds, known) ==
    LET spent == {i \in rounds :
                    budgetSpent(numChecked + Cardinality({d \in known : d < i}), maxChecked)}
    IN  IF spent = {} THEN {} ELSE {Lowest(spent)}

\* the locals after the loop has run over the rounds before stop
windowScan(f, s, known, stop, reached) ==
    [numChecked |-> s.numChecked + Cardinality(reached \cap known),
     earliestChecked |-> Lowest((reached \ known)
                                \cup {j \in reached \cap known : ~roundCheck(f, j)}
                                \cup stop \cup {s.earliestChecked}),
     calls |-> s.calls \cup (reached \cap known),
     scanned |-> s.scanned \cup reached,
     returned |-> stop # {}]

windowUpTo(f, s, rounds, known, stop) ==
    windowScan(f, s, known, stop, {j \in rounds : \A t \in stop : j < t})

windowOver(f, maxChecked, s, rounds, known) ==
    windowUpTo(f, s, rounds, known, windowStop(maxChecked, s.numChecked, rounds, known))

rangeWindow(kr, f, maxChecked, newestRound, s) ==
    windowOver(f, maxChecked, s, newestRound..kr.lastChecked,
               {j \in newestRound..kr.lastChecked : Checked(kr, j)})

\* what a call returns, and what it did on the way
RangeResult(ret, s) == [ret |-> ret, calls |-> s.calls, scanned |-> s.scanned]

RangeUnchecked(kr, oldestUnknown, maxChecked, f) ==
    IF oldestUnknown > kr.lastChecked THEN RangeResult(oldestUnknown, RangeStart)
    ELSE LET newestRound == IF oldestUnknown > kr.firstUnchecked THEN oldestUnknown
                            ELSE kr.firstUnchecked
             s1 == IF oldestUnknown < kr.firstUnchecked
                   THEN rangeBefore(kr, f, maxChecked, oldestUnknown, RangeStart)
                   ELSE RangeStart
         IN  IF s1.returned THEN RangeResult(s1.earliestChecked, s1)
             ELSE LET s2 == IF newestRound >= kr.firstUnchecked
                            THEN rangeWindow(kr, f, maxChecked, newestRound, s1)
                            ELSE s1
                      earliestChecked == IF U64(kr.lastChecked + 1) < s2.earliestChecked
                                         THEN kr.lastChecked
                                         ELSE s2.earliestChecked
                  IN  IF s2.returned THEN RangeResult(s2.earliestChecked, s2)
                      ELSE RangeResult(U64(earliestChecked + 1), s2)

\* ---- RangeUncheckedMaskedRange ----
subSample(kr, start, end) ==
    LET numBlocks == deltaBlocks(kr.bitStream, getBitStreamPos(kr, start),
                                 getBitStreamPos(kr, end))
        copyEnd == IF kr.lastChecked < end THEN kr.lastChecked ELSE end
    IN  IF start > kr.lastChecked
        THEN [buff |-> [k \in 1..numBlocks |-> {}], delta |-> numBlocks]
        ELSE [buff |-> extend(copy(kr.bitStream, getBitStreamPos(kr, start),
                                   getBitStreamPos(kr, U64(copyEnd + 1))), numBlocks),
              delta |-> abs(ToInt(U64(end - start)))]

\* the receiver and the locals of a call, with the calls of roundCheck (by
\* phase and round), the rounds given to Check and the bits of result the first
\* loop read
MaskedStart(kr) ==
    [kr |-> kr, numChecked |-> 0, calls |-> {}, checks |-> {}, examined |-> {},
     fatal |-> FALSE]

\* mutant: an iteration whose roundCheck says no is not counted
visit_free(s, i, open, f, phase) ==
    IF ~open THEN [s EXCEPT !.numChecked = @ + 1]
    ELSE IF ~roundCheck(f, i)
    THEN [s EXCEPT !.calls = @ \cup {<<phase, i>>}]
    ELSE IF OutOfScope(s.kr, i)
    THEN [s EXCEPT !.calls = @ \cup {<<phase, i>>}, !.checks = @ \cup {i},
                   !.fatal = TRUE]
    ELSE [s EXCEPT !.calls = @ \cup {<<phase, i>>}, !.checks = @ \cup {i},
                   !.kr = check(s.kr, i), !.numChecked = @ + 1]

\* the body of both loops: if open && roundCheck(i) { kr.Check(i) }, and the
\* count of the iteration; a fatal Check ends the call
visit(s, i, open, f, phase) ==
    IF ~open THEN [s EXCEPT !.numChecked = @ + 1]
    ELSE IF ~roundCheck(f, i)
    THEN [s EXCEPT !.calls = @ \cup {<<phase, i>>}, !.numChecked = @ + 1]
    ELSE IF OutOfScope(s.kr, i)
    THEN [s EXCEPT !.calls = @ \cup {<<phase, i>>}, !.checks = @ \cup {i},
                   !.fatal = TRUE]
    ELSE [s EXCEPT !.calls = @ \cup {<<phase, i>>}, !.checks = @ \cup {i},
                   !.kr = check(s.kr, i), !.numChecked = @ + 1]

\* lines 317-321: the loop down the window of the mask
RECURSIVE maskLoop(_, _, _, _, _, _)
maskLoop(result, maskFirst, f, maxChecked, i, s) ==
    IF s.fatal \/ ~(i >= maskFirst /\ s.numChecked < maxChecked) THEN s
    ELSE maskLoop(result, maskFirst, f, maxChecked, U64(i - 1),
            [visit(s, i, ~get(result, ToInt(U64(i - maskFirst))), f, 1)
                EXCEPT !.examined = @ \cup {<<i, get(result, ToInt(U64(i - maskFirst)))>>}])

\* lines 332-336: the loop up the rounds start..end-1
RECURSIVE scanLoop(_, _, _, _, _)
scanLoop(f, maxChecked, end, i, s) ==
    IF s.fatal \/ ~(i < end /\ s.numChecked < maxChecked) THEN s
    ELSE scanLoop(f, maxChecked, end, U64(i + 1),
                  visit(s, i, ~Checked(s.kr, i), f, 2))

maskedWindow(kr, mask, sub, f, maxChecked) ==
    maskLoop(implies(sub.buff, mask.bitStream), mask.firstUnchecked, f, maxChecked,
             U64(mask.firstUnchecked + sub.delta - 1), MaskedStart(kr))

maskedScan(mask, f, start, end, maxChecked, s) ==
    scanLoop(f, maxChecked,
             IF end > mask.firstUnchecked THEN mask.firstUnchecked ELSE end,
             IF start < s.kr.firstUnchecked THEN s.kr.firstUnchecked ELSE start,
             s)

\* the call once the mask has been forwarded
maskedPhases(kr, mask, windowed, f, start, end, maxChecked) ==
    [mask |-> mask,
     run |-> maskedScan(mask, f, start, end, maxChecked,
                IF windowed
                THEN maskedWindow(kr, mask, subSample(kr, mask.firstUnchecked, mask.lastChecked),
                                  f, maxChecked)
                ELSE MaskedStart(kr))]

RangeUncheckedMaskedRange(kr, mask, f, start, end, maxChecked) ==
    IF mask.firstUnchecked # mask.lastChecked
    THEN maskedPhases(kr, Forward(mask, kr.firstUnchecked), TRUE, f, start, end, maxChecked)
    ELSE maskedPhases(kr, mask, FALSE, f, start, end, maxChecked)

RangeUncheckedMasked(kr, mask, f, maxChecked) ==
    RangeUncheckedMaskedRange(kr, mask, f, 0, MaxUint64, maxChecked)

\* ---- Message (format): the payloads are slices of master ----
NewMessage == [i \in 1..TotalLen |-> 0]

GetPayloadA(m) == SubSeq(m, payloadAStart + 1, payloadAEnd)

GetPayloadB(m) == SubSeq(m, payloadBStart + 1, payloadBEnd)

\* copy(m.master[start:], payload)
copyAt(m, start, payload) ==
    [i \in 1..Len(m) |->
        IF start < i /\ i <= start + Len(payload) THEN payload[i - start] ELSE m[i]]

SetPayloadA(m, payload) == copyAt(m, payloadAStart, payload)

SetPayloadB(m, payload) == copyAt(m, payloadBStart, payload)

GetPayloadBForEncryption(m) ==
    LET payloadCopy == GetPayloadB(m)
        swapped == [payloadCopy EXCEPT ![PayloadLen] = payloadCopy[1]]
    IN  [swapped EXCEPT ![1] = 0]

\* mutant: the last byte is not set to zero
SetDecryptedPayloadB_keepLast(m, newPayload) ==
    LET copied == copyAt(m, payloadBStart, newPayload)
    IN  [copied EXCEPT ![payloadBStart + 1] = copied[payloadBStart + PayloadLen]]

SetDecryptedPayloadB(m, newPayload) ==
    LET copied == copyAt(m, payloadBStart, newPayload)
        moved == [copied EXCEPT ![payloadBStart + 1] = copied[payloadBStart + PayloadLen]]
    IN  [moved EXCEPT ![payloadBStart + PayloadLen] = 0]

\* ---- notifications: BuildNotificationCSV ----
\* the characters of a line besides those of base64
Comma == Pad + 1
Newline == Pad + 2

\* csv.Writer.Write of the two base64 fields, which never need quotes, and Flush
csvLine(nd) ==
    B64Encode(nd.MessageHash) \o <<Comma>> \o B64Encode(nd.IdentityFP) \o <<Newline>>

\* the loop with 'continue' for 'break': an entry that does not fit is passed over
RECURSIVE buildLoop_skip(_, _, _, _, _)
buildLoop_skip(ndList, maxSize, i, buf, numWritten) ==
    IF i > Len(ndList) THEN [buf |-> buf, numWritten |-> numWritten]
    ELSE LET line == csvLine(ndList[i])
         IN  IF Len(buf) + Len(line) > maxSize
             THEN buildLoop_skip(ndList, maxSize, i + 1, buf, numWritten)
             ELSE buildLoop_skip(ndList, maxSize, i + 1, buf \o line, numWritten + 1)

\* the loop over ndList from entry i on: break at the first line that does not fit
RECURSIVE buildLoop(_, _, _, _, _)
buildLoop(ndList, maxSize, i, buf, numWritten) ==
    IF i > Len(ndList) THEN [buf |-> buf, numWritten |-> numWritten]
    ELSE LET line == csvLine(ndList[i])
         IN  IF Len(buf) + Len(line) > maxSize
             THEN [buf |-> buf, numWritten |-> numWritten]
             ELSE buildLoop(ndList, maxSize, i + 1, buf \o line, numWritten + 1)

\* mutant: built with the loop that passes over entries
BuildNotificationCSV_skip(ndList, maxSize) ==
    LET r == buildLoop_skip(ndList, maxSize, 1, << >>, 0)
    IN  [csv |-> r.buf, rest |-> SubSeq(ndList, r.numWritten + 1, Len(ndList))]

BuildNotificationCSV(ndList, maxSize) ==
    LET r == buildLoop(ndList, maxSize, 1, << >>, 0)
    IN  [csv |-> r.buf, rest |-> SubSeq(ndList, r.numWritten + 1, Len(ndList))]

\* ---- the state machine ----
VARIABLES bitStream, firstUnchecked, lastChecked, fuPos,  \* the KnownRounds
          op, arg,      \* the last operation called and its round id
          pre,          \* the KnownRounds before that call
          fatal,        \* the last call panicked (jww.FATAL.Panicf)
          out,          \* what the last call returned and did, <<>> if nothing
          master        \* the serial of the Message, << >> while there is none

vars == <<bitStream, firstUnchecked, lastChecked, fuPos, op, arg, pre, fatal, out, master>>

KR == [bitStream |-> bitStream, firstUnchecked |-> firstUnchecked,
       lastChecked |-> lastChecked, fuPos |-> fuPos]

\* capacities given to NewKnownRound: one word and two words
Capacities == {5, 100}

\* round ids given to the operations: the first and the last round of a word
Rounds == {64 * k + o : k \in 0..MaxBlock, o \in {0, 63}}

Become(kr) ==
    /\ bitStream' = kr.bitStream
    /\ firstUnchecked' = kr.firstUnchecked
    /\ lastChecked' = kr.lastChecked
    /\ fuPos' = kr.fuPos
    /\ master' = master

Init ==
    \E roundCapacity \in Capacities :
        /\ bitStream = NewKnownRound(roundCapacity).bitStream
        /\ firstUnchecked = NewKnownRound(roundCapacity).firstUnchecked
        /\ lastChecked = NewKnownRound(roundCapacity).lastChecked
        /\ fuPos = NewKnownRound(roundCapacity).fuPos
        /\ op = "NewKnownRound"
        /\ arg = roundCapacity
        /\ pre = NewKnownRound(roundCapacity)
        /\ fatal = FALSE
        /\ out = <<>>
        /\ master = << >>

Check(rid) ==
    /\ ~fatal
    /\ op' = "Check"
    /\ arg' = rid
    /\ pre' = KR
    /\ out' = <<>>
    /\ IF OutOfScope(KR, rid)
       THEN fatal' = TRUE /\ Become(KR)
       ELSE fatal' = FALSE /\ Become(check(KR, rid))

ForceCheck(rid) ==
    /\ ~fatal
    /\ op' = "ForceCheck"
    /\ arg' = rid
    /\ pre' = KR
    /\ out' = <<>>
    /\ fatal' = FALSE
    /\ Become(ForceCheckResult(KR, rid))

ForwardOp(rid) ==
    /\ ~fatal
    /\ op' = "Forward"
    /\ arg' = rid
    /\ pre' = KR
    /\ out' = <<>>
    /\ fatal' = FALSE
    /\ Become(Forward(KR, rid))

Next ==
    \/ \E rid \in Rounds : Check(rid)
    \/ \E rid \in Rounds : ForceCheck(rid)
    \/ \E rid \in Rounds : ForwardOp(rid)

Spec == Init /\ [][Next]_vars

\* ---- the state machine with the snapshot codec ----
\* KnownRounds whose snapshots arrive as data
Snapshots ==
    {check(NewKnownRound(5), 63),
     check(check(NewKnownRound(100), 63), 127),
     check(check(Forward(NewKnownRound(100), 63), 127), 128)}

\* an envelope whose BitStream has 9 bytes
BadLength ==
    JsonMarshal([BitStream |-> marshal(<<{}>>) \o <<1>>,
                 FirstUnchecked |-> 0, LastChecked |-> 0])

WireData == {Marshal(k) : k \in Snapshots} \cup {NotJson, BadLength}

\* a receiver may be made without a buffer, "like in the wire representations"
InitCodec ==
    \E roundCapacity \in Capacities \cup {0} :
        /\ bitStream = NewKnownRound(roundCapacity).bitStream
        /\ firstUnchecked = NewKnownRound(roundCapacity).firstUnchecked
        /\ lastChecked = NewKnownRound(roundCapacity).lastChecked
        /\ fuPos = NewKnownRound(roundCapacity).fuPos
        /\ op = "NewKnownRound"
        /\ arg = roundCapacity
        /\ pre = NewKnownRound(roundCapacity)
        /\ fatal = FALSE
        /\ out = <<>>
        /\ master = << >>

MarshalOp ==
    /\ ~fatal
    /\ Len(bitStream) > 0
    /\ op' = "Marshal"
    /\ arg' = 0
    /\ pre' = KR
    /\ fatal' = FALSE
    /\ out' = [data |-> Marshal(KR)]
    /\ Become(KR)

\* the receiver after the call r, and the error it returned
unmarshalReturn(data, r) ==
    /\ ~fatal
    /\ op' = "Unmarshal"
    /\ arg' = data
    /\ pre' = KR
    /\ fatal' = (r.err = "panic")
    /\ out' = [err |-> r.err]
    /\ Become(r.kr)

UnmarshalOp(data, truncates) == unmarshalReturn(data, Unmarshal(KR, data, truncates))

\* snapshots taken of a KnownRounds that Check, ForceCheck and Forward made
NextMarshal ==
    \/ Next
    \/ MarshalOp

SpecMarshal == Init /\ [][NextMarshal]_vars

\* the operations of Next divide by Len(), so they are for a KnownRounds that
\* has a buffer
NextCodec ==
    \/ Len(bitStream) > 0 /\ Next
    \/ MarshalOp
    \/ \E data \in WireData :
          \E truncates \in (IF data = BadLength THEN BOOLEAN ELSE {FALSE}) :
              UnmarshalOp(data, truncates)

SpecCodec == InitCodec /\ [][NextCodec]_vars


\* ---- the state machine with RangeUnchecked ----
Budgets == {0, 2}

\* the rounds RangeUnchecked is started at: before, inside and behind a window
RangeStarts == {0, 63, 128}

RangeUncheckedOp(oldestUnknown, maxChecked, f) ==
    /\ ~fatal
    /\ op' = "RangeUnchecked"
    /\ arg' = [oldestUnknown |-> oldestUnknown, maxChecked |-> maxChecked, roundCheck |-> f]
    /\ pre' = KR
    /\ fatal' = FALSE
    /\ out' = RangeUnchecked(KR, oldestUnknown, maxChecked, f)
    /\ Become(KR)

NextRange ==
    \/ Next
    \/ \E oldestUnknown \in RangeStarts : \E maxChecked \in Budgets : \E f \in RoundChecks :
            RangeUncheckedOp(oldestUnknown, maxChecked, f)

SpecRange == Init /\ [][NextRange]_vars


\* ---- the state machine with RangeUncheckedMasked ----
\* the masks: a window from round 0, a window whose first bit is not bit 0, an
\* empty window, and a window of three words that reaches past round 128
Masks == {check(check(NewKnownRound(100), 3), 65),
          check(Forward(NewKnownRound(100), 62), 64),
          Forward(NewKnownRound(5), 70),
          check(NewKnownRound(190), 130)}

MaskBudgets == {0, 3}

\* start and end: those of RangeUncheckedMasked, and a range inside the rounds
MaskRanges == {<<0, MaxUint64>>, <<1, 64>>}

\* the receiver after the call r, and what the call did
maskedReturn(callArg, r) ==
    /\ ~fatal
    /\ op # "RangeUncheckedMasked"
    /\ op' = "RangeUncheckedMasked"
    /\ arg' = callArg
    /\ pre' = KR
    /\ fatal' = r.run.fatal
    /\ out' = [mask |-> r.mask, calls |-> r.run.calls, checks |-> r.run.checks,
               examined |-> r.run.examined]
    /\ Become(r.run.kr)

RangeUncheckedMaskedOp(mask, f, range, maxChecked) ==
    maskedReturn([mask |-> mask, roundCheck |-> f, start |-> range[1],
                  end |-> range[2], maxChecked |-> maxChecked],
                 RangeUncheckedMaskedRange(KR, mask, f, range[1], range[2], maxChecked))

\* a run of the operations of Next and then one call with a mask
NextMasked ==
    \/ op # "RangeUncheckedMasked" /\ Next
    \/ \E mask \in Masks : \E f \in RoundChecks : \E range \in MaskRanges :
        \E maxChecked \in MaskBudgets :
            RangeUncheckedMaskedOp(mask, f, range, maxChecked)

SpecMasked == Init /\ [][NextMasked]_vars


\* ---- the state machine of a Message ----
\* a payload with the given first, second and last byte, zero elsewhere
Payload(first, second, last) ==
    [i \in 1..PayloadLen |->
        IF i = 1 THEN first ELSE IF i = 2 THEN second
        ELSE IF i = PayloadLen THEN last ELSE 0]

\* payloads handed to the setters, one of them too short
Payloads ==
    {Payload(first, second, last) : first \in {0, 255}, second \in {0, 1}, last \in {0, 255}}
        \cup {<<7>>}

\* no KnownRounds is in use while the Message is exercised
NoKnownRounds ==
    /\ bitStream = << >>
    /\ firstUnchecked = 0
    /\ lastChecked = 0
    /\ fuPos = 0

InitMessage ==
    /\ NoKnownRounds
    /\ op = "NewMessage"
    /\ arg = << >>
    /\ pre = [master |-> NewMessage]
    /\ fatal = FALSE
    /\ out = << >>
    /\ master = NewMessage

\* the effect of a setter: it panics on a payload of the wrong length
setPayload(name, payload, m) ==
    /\ op' = name
    /\ arg' = payload
    /\ pre' = [master |-> master]
    /\ out' = << >>
    /\ fatal' = (Len(payload) # PayloadLen)
    /\ master' = IF Len(payload) # PayloadLen THEN master ELSE m
    /\ UNCHANGED <<bitStream, firstUnchecked, lastChecked, fuPos>>

SetPayloadAOp(payload) ==
    /\ ~fatal
    /\ setPayload("SetPayloadA", payload, SetPayloadA(master, payload))

SetPayloadBOp(payload) ==
    /\ ~fatal
    /\ setPayload("SetPayloadB", payload, SetPayloadB(master, payload))

SetDecryptedPayloadBOp(payload) ==
    /\ ~fatal
    /\ setPayload("SetDecryptedPayloadB", payload, SetDecryptedPayloadB(master, payload))

GetPayloadBForEncryptionOp ==
    /\ ~fatal
    /\ op' = "GetPayloadBForEncryption"
    /\ arg' = << >>
    /\ pre' = [master |-> master]
    /\ out' = [payload |-> GetPayloadBForEncryption(master)]
    /\ fatal' = FALSE
    /\ UNCHANGED <<bitStream, firstUnchecked, lastChecked, fuPos, master>>

\* what GetPayloadBForEncryption returns for the payloads above
EncryptedPayloads ==
    {GetPayloadBForEncryption(SetPayloadB(NewMessage, payload)) :
        payload \in {q \in Payloads : Len(q) = PayloadLen}}

NextMessage ==
    \/ \E payload \in {Payload(1, 0, 255), <<7>>} : SetPayloadAOp(payload)
    \/ \E payload \in Payloads : SetPayloadBOp(payload)
    \/ GetPayloadBForEncryptionOp
    \/ \E payload \in Payloads \cup EncryptedPayloads : SetDecryptedPayloadBOp(payload)

SpecMessage == InitMessage /\ [][NextMessage]_vars

\* ---- BuildNotificationCSV applied to lists of notifications ----
DataSamples ==
    {[EphemeralID |-> 1, RoundID |-> 1, IdentityFP |-> << >>, MessageHash |-> << >>],
     [EphemeralID |-> 2, RoundID |-> 2, IdentityFP |-> <<2>>, MessageHash |-> <<1>>],
     [EphemeralID |-> 3, RoundID |-> 3, IdentityFP |-> <<5>>, MessageHash |-> <<1, 2, 3, 255>>]}

NdLists == UNION {[1..n -> DataSamples] : n \in 0..MaxList}

InitCSV ==
    /\ NoKnownRounds
    /\ master = << >>
    /\ op = "input"
    /\ \E ndList \in NdLists, maxSize \in 0..MaxSize :
            arg = [ndList |-> ndList, maxSize |-> maxSize]
    /\ pre = << >>
    /\ fatal = FALSE
    /\ out = << >>

BuildNotificationCSVOp ==
    /\ op = "input"
    /\ op' = "BuildNotificationCSV"
    /\ out' = BuildNotificationCSV(arg.ndList, arg.maxSize)
    /\ UNCHANGED <<bitStream, firstUnchecked, lastChecked, fuPos, master, arg, pre, fatal>>

NextCSV == BuildNotificationCSVOp

SpecCSV == InitCSV /\ [][NextCSV]_vars

\* ---- helpers of the properties ----
Window(kr) == kr.firstUnchecked..kr.lastChecked

\* the rounds a property looks at: every round the operations can be given,
\* the rounds next to them and the rounds around the window
Probe == (0..(64 * (MaxBlock + 1) + 1))
            \cup ((IF firstUnchecked = 0 THEN 0 ELSE firstUnchecked - 1)..(lastChecked + 1))

Called(o) == op = o /\ ~fatal

\* C1: after any sequence of NewKnownRound, non-fatal Check, ForceCheck and
\* Forward, firstUnchecked <= lastChecked + 1.
C1_FirstBeforeLast == firstUnchecked <= lastChecked + 1

C1_Witness ==
    /\ Called("Forward")
    /\ arg > pre.lastChecked + 1
    /\ pre.firstUnchecked < pre.lastChecked

\* C2: the active window fits in the buffer, lastChecked - firstUnchecked <
\* Len(), so no two rounds of the window share a bit position.
C2_WindowFits ==
    /\ lastChecked - firstUnchecked < KLen(KR)
    /\ Cardinality({getBitStreamPos(KR, r) : r \in Window(KR)})
            = lastChecked - firstUnchecked + 1

C2_Witness ==
    /\ Called("Check")
    /\ arg > pre.lastChecked
    /\ arg - pre.firstUnchecked >= KLen(pre)

\* C3: Checked(rid) is true below firstUnchecked, false above lastChecked and
\* the bit at getBitStreamPos(rid) in between.
C3_CheckedByRegion ==
    \A rid \in Probe :
        /\ rid < firstUnchecked => Checked(KR, rid)
        /\ rid > lastChecked => ~Checked(KR, rid)
        /\ (rid >= firstUnchecked /\ rid <= lastChecked) =>
               (Checked(KR, rid) <=> get(bitStream, getBitStreamPos(KR, rid)))

C3_Witness ==
    /\ op \in {"Check", "ForceCheck", "Forward"}
    /\ firstUnchecked > 0
    /\ \E r \in Window(KR) : Checked(KR, r)
    /\ \E r \in Window(KR) : ~Checked(KR, r)

\* C4: after a Check(rid) that does not fail fatally, and after any
\* ForceCheck(rid), Checked(rid) is true.
C4_CheckedAfterCheck ==
    (Called("Check") \/ op = "ForceCheck") => Checked(KR, arg)

C4_Witness ==
    /\ Called("Check")
    /\ ~Checked(pre, arg)
    /\ arg >= firstUnchecked
    /\ Checked(KR, arg)

\* |a - b| of two round ids, as a number
Distance(a, b) == IF a >= b THEN a - b ELSE b - a

\* equality of what a caller can observe: the cursors, fuPos and Checked(r)
\* of every r (which the cursors and the bits of the window determine)
CheckedIn(kr) == {r \in Window(kr) : Checked(kr, r)}

SameState(k1, k2) ==
    /\ k1.firstUnchecked = k2.firstUnchecked
    /\ k1.lastChecked = k2.lastChecked
    /\ k1.fuPos = k2.fuPos
    /\ CheckedIn(k1) = CheckedIn(k2)

\* C5: Check(rid) fails fatally exactly when |lastChecked - rid| exceeds the
\* capacity C; with |lastChecked - rid| <= C it runs the check body.
C5_FatalIffBeyondCapacity ==
    op = "Check" =>
        /\ fatal <=> Distance(pre.lastChecked, arg) > KLen(pre)
        /\ ~fatal => SameState(KR, check(pre, arg))

\* C6: a non-fatal Check(rid) with rid > lastChecked leaves lastChecked = rid
\* and every round strictly between the old lastChecked and rid unchecked.
C6_CheckExtendsWindow ==
    (Called("Check") /\ arg > pre.lastChecked) =>
        /\ lastChecked = arg
        /\ \A r \in (pre.lastChecked + 1)..(arg - 1) : ~Checked(KR, r)

\* C7: ForceCheck(rid) with rid > lastChecked leaves lastChecked = rid, rid in
\* the active window and every round r with max(old lastChecked, rid - C) < r
\* < rid unchecked.
C7_ForceCheckExtendsWindow ==
    (op = "ForceCheck" /\ arg > pre.lastChecked) =>
        /\ lastChecked = arg
        /\ firstUnchecked <= arg
        /\ \A r \in (pre.lastChecked + 1)..(arg - 1) :
               r > arg - KLen(pre) => ~Checked(KR, r)

\* C8: Check is idempotent: a second Check(rid) after a non-fatal Check(rid)
\* does not fail and leaves the cursors, fuPos and Checked(r) of every r as
\* they are.
C8_CheckIdempotent ==
    Called("Check") =>
        /\ ~OutOfScope(KR, arg)
        /\ SameState(check(KR, arg), KR)

\* C9: Forward is idempotent: a second Forward(rid) after Forward(rid) leaves
\* firstUnchecked, lastChecked, fuPos and the bits as they are.
C9_ForwardIdempotent ==
    op = "Forward" => Forward(KR, arg) = KR

C9_Witness ==
    /\ op = "Forward"
    /\ arg >= 64
    /\ arg > pre.lastChecked
    /\ get(bitStream, getBitStreamPos(KR, arg))

\* C10: Forward(rid) with rid > lastChecked leaves firstUnchecked = rid,
\* lastChecked = rid - 1 and fuPos = rid mod 64.
C10_ForwardBeyondLast ==
    (op = "Forward" /\ arg > pre.lastChecked) =>
        /\ firstUnchecked = arg
        /\ lastChecked = arg - 1
        /\ fuPos = arg % 64

\* C11: Marshal, then Unmarshal of the result into a fresh KnownRounds of the
\* same capacity, succeeds and gives the same firstUnchecked, lastChecked and
\* Checked(rid) for every rid, also when the window wraps around the ring.
C11_RoundTrip ==
    op = "Marshal" =>
        LET r == Unmarshal(NewKnownRound(KLen(KR)), out.data, FALSE)
        IN  /\ r.err = "none"
            /\ r.kr.firstUnchecked = firstUnchecked
            /\ r.kr.lastChecked = lastChecked
            /\ \A rid \in Probe : Checked(r.kr, rid) = Checked(KR, rid)

\* the words of the bit stream an envelope carries
IncomingWords(data) == unmarshal(JsonUnmarshal(data).dkr.BitStream)

Parses(data) == ~JsonUnmarshal(data).err

\* C12: Unmarshal returns the capacity error exactly when the receiver's
\* buffer is non-empty and has fewer words than the incoming bit stream; an
\* empty receiver adopts the incoming buffer, one with at least as many words
\* succeeds.
C12_CapacityError ==
    (op = "Unmarshal" /\ Parses(arg)) =>
        LET have == Len(pre.bitStream)
            need == Len(IncomingWords(arg))
            sized == unmarshalSized(JsonUnmarshal(arg).dkr.BitStream)
        IN  /\ out.err = "size" <=> (have # 0 /\ have < need)
            /\ (have = 0 /\ sized) => (out.err = "none" /\ bitStream = IncomingWords(arg))
            /\ (have >= need /\ sized) => out.err = "none"

C12_Witness ==
    /\ op = "Unmarshal"
    /\ Parses(arg)
    /\ out.err = "size"
    /\ Len(pre.bitStream) = 1
    /\ Len(IncomingWords(arg)) = 2

\* C13: Unmarshal returns an error when the envelope cannot be parsed or when
\* the BitStream byte length is not a multiple of 8.
C13_MalformedIsError ==
    (op = "Unmarshal"
        /\ (~Parses(arg) \/ ~unmarshalSized(JsonUnmarshal(arg).dkr.BitStream))) =>
        out.err \in {"json", "size"}

\* C14: Marshal emits BitStream as a sequence of 64-bit integers, one per word
\* of the compressed span (word i = bitStream[(i + startBlock) mod W]), not as
\* a base64 string, with FirstUnchecked and LastChecked.
C14_BitStreamIsWordArray ==
    op = "Marshal" =>
        /\ out.data.kind = "object"
        /\ out.data.BitStream.type = "array"
        /\ out.data.BitStream.elems = compressed(pre)
        /\ out.data.FirstUnchecked = pre.firstUnchecked
        /\ out.data.LastChecked = pre.lastChecked

\* C15: NewKnownRound(n) returns a buffer of n 64-bit words, all zero, with
\* firstUnchecked = 0, lastChecked = 0 and fuPos = 0.
C15_NewHasNWords ==
    op = "NewKnownRound" =>
        /\ Len(bitStream) = arg
        /\ \A k \in 1..Len(bitStream) : bitStream[k] = {}
        /\ firstUnchecked = 0
        /\ lastChecked = 0
        /\ fuPos = 0

\* C16: in one call of RangeUnchecked(oldestUnknown, maxChecked, roundCheck)
\* roundCheck is invoked at most maxChecked times, never when maxChecked = 0.
C16_RangeWithinBudget ==
    op = "RangeUnchecked" => Cardinality(out.calls) <= arg.maxChecked

\* the budget runs out in the window, after calls in both loops, with a known
\* round still ahead
C16_Witness ==
    /\ op = "RangeUnchecked"
    /\ arg.maxChecked = 2
    /\ Cardinality(out.calls) = 2
    /\ \E a \in out.calls : a < pre.firstUnchecked
    /\ \E b \in out.calls : b >= pre.firstUnchecked
    /\ \E j \in Window(pre) : Checked(pre, j) /\ j \notin out.calls

\* C17: RangeUnchecked records its results: every scanned round that was
\* unchecked and that roundCheck accepts is Checked afterwards, and a round
\* argument N above lastChecked leaves lastChecked = N - 1.
C17_RangeRecordsResults ==
    op = "RangeUnchecked" =>
        /\ \A i \in out.scanned \cup out.calls :
                (~Checked(pre, i) /\ roundCheck(arg.roundCheck, i)) => Checked(KR, i)
        /\ arg.oldestUnknown > pre.lastChecked => lastChecked = arg.oldestUnknown - 1

\* C18: of the rounds of [max(oldestUnknown, firstUnchecked), lastChecked] that
\* RangeUnchecked comes to with budget left, roundCheck is invoked exactly for
\* those with Checked(i) = false; a checked round costs no call.
C18_RangeCallsUnchecked ==
    op = "RangeUnchecked" =>
        \A i \in out.scanned : (i \in out.calls) <=> ~Checked(pre, i)

\* C19: in the mask-window phase of RangeUncheckedMaskedRange, for each
\* examined round r = mask.firstUnchecked + i, bit i of result is true iff
\* self.Checked(r) or the mask reports r as checked, so roundCheck(r) is
\* invoked only for rounds that neither self nor the mask considers checked,
\* whatever mask.fuPos is.
C19_ResultIsSelfOrMask ==
    op = "RangeUncheckedMasked" =>
        /\ \A e \in out.examined :
                e[2] <=> (Checked(pre, e[1]) \/ Checked(out.mask, e[1]))
        /\ \A c \in out.calls :
                c[1] = 1 => (~Checked(pre, c[2]) /\ ~Checked(out.mask, c[2]))

\* C20: in one call of RangeUncheckedMasked / RangeUncheckedMaskedRange with
\* budget maxChecked, roundCheck is invoked at most maxChecked times over both
\* phases, and self.Check is called only on rounds roundCheck accepted.
C20_MaskedWithinBudget ==
    op = "RangeUncheckedMasked" =>
        /\ Cardinality(out.calls) <= arg.maxChecked
        /\ \A r \in out.checks :
                /\ roundCheck(arg.roundCheck, r)
                /\ \E c \in out.calls : c[2] = r

\* calls in both phases, and the budget ends the second phase before a round
\* it would have asked about
C20_Witness ==
    /\ op = "RangeUncheckedMasked"
    /\ ~fatal
    /\ \E c \in out.calls : c[1] = 1 /\ c[2] \in out.checks
    /\ \E c \in out.calls : c[1] = 2 /\ c[2] \in out.checks
    /\ \E r \in firstUnchecked..(out.mask.firstUnchecked - 1) :
            /\ arg.start <= r /\ r < arg.end
            /\ ~Checked(KR, r)
            /\ roundCheck(arg.roundCheck, r)
            /\ <<2, r>> \notin out.calls

\* C23: after any sequence of NewKnownRound, Check, ForceCheck and Forward,
\* firstUnchecked is a round whose bit is zero, the smallest such round of
\* [firstUnchecked, lastChecked], or it equals lastChecked.
C23_FirstUncheckedIsUnchecked ==
    \/ firstUnchecked = lastChecked
    \/ /\ ~Checked(KR, firstUnchecked)
       /\ \A r \in Window(KR) : ~Checked(KR, r) => firstUnchecked <= r

C25_ForwardInsideWindow ==
    op = "Forward" =>
        /\ (pre.firstUnchecked <= arg /\ arg <= pre.lastChecked) =>
                LET unchecked == {r \in arg..pre.lastChecked : ~Checked(pre, r)}
                    target == IF unchecked = {} THEN pre.lastChecked ELSE Lowest(unchecked)
                IN  /\ firstUnchecked = target
                    /\ fuPos = getBitStreamPos(pre, target)
                    /\ lastChecked = pre.lastChecked
                    /\ bitStream = pre.bitStream
        /\ arg < pre.firstUnchecked => KR = pre

\* Forward went over checked rounds and stopped at an unchecked one inside the
\* window
C25_Witness ==
    /\ op = "Forward"
    /\ pre.firstUnchecked < arg
    /\ arg < firstUnchecked
    /\ firstUnchecked < lastChecked

\* C26: when the mask has a non-empty window and the budget is not limiting,
\* the mask-window phase of RangeUncheckedMaskedRange examines exactly the
\* rounds mask.firstUnchecked + i, 0 <= i < mask.lastChecked -
\* mask.firstUnchecked (cursors after mask.Forward(self.firstUnchecked)), and
\* no other round, also when mask.firstUnchecked > self.lastChecked or
\* mask.firstUnchecked = 0.
C26_MaskWindowExamined ==
    (/\ op = "RangeUncheckedMasked"
     /\ ~fatal
     /\ arg.mask.firstUnchecked # arg.mask.lastChecked
     /\ arg.maxChecked >= out.mask.lastChecked - out.mask.firstUnchecked) =>
        {e[1] : e \in out.examined} =
            {out.mask.firstUnchecked + i :
                i \in 0..(out.mask.lastChecked - out.mask.firstUnchecked - 1)}

\* C27: the checked set only grows: a round that is Checked before a Check,
\* ForceCheck or Forward is Checked after it.
C27_CheckedOnlyGrows ==
    op \in {"Check", "ForceCheck", "Forward"} =>
        \A r \in Probe \cup (pre.firstUnchecked..pre.lastChecked) :
            Checked(pre, r) => Checked(KR, r)

\* a Check lapped the window and clearRange cleared the bit of a round of the
\* window that was checked
C27_Witness ==
    /\ Called("Check")
    /\ arg > pre.lastChecked
    /\ U64(arg - pre.firstUnchecked) >= KLen(pre)
    /\ \E r \in Window(pre) :
            /\ Checked(pre, r)
            /\ ~get(bitStream, getBitStreamPos(pre, r))
            /\ Checked(KR, r)

\* C28: across any sequence of Check, ForceCheck and Forward neither
\* firstUnchecked nor lastChecked ever decreases.
C28_CursorsNeverDecrease ==
    op \in {"Check", "ForceCheck", "Forward"} =>
        /\ firstUnchecked >= pre.firstUnchecked
        /\ lastChecked >= pre.lastChecked

\* Forward is given a round before firstUnchecked and moves nothing
C28_Witness ==
    /\ op = "Forward"
    /\ arg < pre.firstUnchecked
    /\ pre.firstUnchecked < pre.lastChecked
    /\ KR = pre

\* C29: a Check(rid) that does not fail changes the checked status of rid
\* only: every other round r > rid - C is Checked after the call iff it was
\* before, also when rid lapped the window.
C29_CheckChangesOnlyRid ==
    Called("Check") =>
        \A r \in Probe \cup Window(pre) :
            (r # arg /\ r > arg - KLen(pre)) => (Checked(KR, r) <=> Checked(pre, r))

\* C30: Forward(rid) only reclassifies rounds below rid: every round r >= rid
\* is Checked after Forward(rid) iff it was before; after Forward(rid) with
\* rid > lastChecked, Checked(rid) is false whatever stale bits the buffer
\* holds.
C30_ForwardKeepsLaterRounds ==
    op = "Forward" =>
        /\ \A r \in Probe \cup Window(pre) :
                r >= arg => (Checked(KR, r) <=> Checked(pre, r))
        /\ arg > pre.lastChecked => ~Checked(KR, arg)

\* C21: when the last byte of payload B is zero, SetDecryptedPayloadB of what
\* GetPayloadBForEncryption returned leaves payload B, payload A and the
\* whole master as they were; GetPayloadBForEncryption returns a copy of
\* payload B with first byte 0 and last byte the original first byte, and
\* does not modify the message.
C21_PayloadBRoundTrip ==
    /\ (/\ Called("SetDecryptedPayloadB")
        /\ pre.master[payloadBEnd] = 0
        /\ arg = GetPayloadBForEncryption(pre.master)) =>
            /\ GetPayloadB(master) = GetPayloadB(pre.master)
            /\ GetPayloadA(master) = GetPayloadA(pre.master)
            /\ master = pre.master
    /\ op = "GetPayloadBForEncryption" =>
            /\ Len(out.payload) = PayloadLen
            /\ out.payload[1] = 0
            /\ out.payload[PayloadLen] = GetPayloadB(pre.master)[1]
            /\ \A i \in 2..(PayloadLen - 1) : out.payload[i] = GetPayloadB(pre.master)[i]
            /\ master = pre.master

C21_Witness ==
    /\ Called("SetDecryptedPayloadB")
    /\ pre.master[payloadBEnd] = 0
    /\ pre.master[payloadBStart + 1] = 255
    /\ pre.master[payloadBStart + 2] = 1
    /\ pre.master[payloadAStart + 1] = 1
    /\ arg = GetPayloadBForEncryption(pre.master)
    /\ arg[PayloadLen] = 255
    /\ master = pre.master

\* the lines of the first k entries of ndList, one after the other
RECURSIVE Lines(_, _)
Lines(ndList, k) == IF k = 0 THEN << >> ELSE Lines(ndList, k - 1) \o csvLine(ndList[k])

\* C22: for every ndList and maxSize >= 0, BuildNotificationCSV returns at
\* most maxSize bytes that are the lines of the first k entries in order, and
\* the remainder ndList[k:], where k is the longest prefix whose lines fit in
\* maxSize: it stops at the first entry that does not fit and skips none.
C22_LongestPrefixThatFits ==
    op = "BuildNotificationCSV" =>
        LET ndList == arg.ndList
            fits == {j \in 0..Len(ndList) : Len(Lines(ndList, j)) <= arg.maxSize}
            k == CHOOSE j \in fits : \A q \in fits : q <= j
        IN  /\ Len(out.csv) <= arg.maxSize
            /\ out.csv = Lines(ndList, k)
            /\ out.rest = SubSeq(ndList, k + 1, Len(ndList))
            /\ Len(out.rest) = Len(ndList) - k

C22_Witness ==
    /\ op = "BuildNotificationCSV"
    /\ Len(out.csv) > 0
    /\ Len(out.rest) >= 2
    /\ Len(out.csv) + Len(csvLine(out.rest[1])) > arg.maxSize
    /\ Len(out.csv) + Len(csvLine(out.rest[2])) <= arg.maxSize

\* C31: ForceCheck(rid) with rid < firstUnchecked leaves firstUnchecked,
\* lastChecked, fuPos and the bits unchanged, whatever the distance between
\* rid and lastChecked, also when lastChecked - rid >= C and rid < C.
C31_ForceCheckBelowFirst ==
    (op = "ForceCheck" /\ arg < pre.firstUnchecked) => KR = pre

\* C32: the round RangeUnchecked returns skips no work: it is at most every
\* round of [oldestUnknown, lastChecked] on which roundCheck was invoked and
\* returned false, and at most every round of that range that was not
\* processed because the budget ran out.
C32_RangeReturnSkipsNoWork ==
    op = "RangeUnchecked" =>
        /\ \A i \in out.calls : ~roundCheck(arg.roundCheck, i) => out.ret <= i
        /\ \A i \in arg.oldestUnknown..pre.lastChecked :
                i \notin out.calls \cup out.scanned => out.ret <= i

\* C33: RangeUncheckedMasked / RangeUncheckedMaskedRange never fails fatally:
\* every self.Check(r) it issues is within the capacity of self, also when the
\* window of the mask lies C or more rounds away from self.lastChecked.
C33_MaskedNeverFatal ==
    op = "RangeUncheckedMasked" => ~fatal

\* C34: an Unmarshal that returns an error, from the parse of the envelope or
\* from the capacity test, leaves bitStream, firstUnchecked, lastChecked and
\* fuPos as they were before the call.
C34_FailedUnmarshalKeepsState ==
    (op = "Unmarshal" /\ out.err \in {"json", "size"}) => KR = pre

\* a capacity error for a receiver that operations have moved, on data with
\* other cursors
C34_Witness ==
    /\ op = "Unmarshal"
    /\ out.err = "size"
    /\ pre.lastChecked > 0
    /\ pre.bitStream # <<{}>>
    /\ arg.LastChecked # pre.lastChecked
    /\ KR = pre

\* rounds at and above firstUnchecked: the window, the rounds next to it, the
\* rounds the operations are called with, and a round half of the range of
\* id.Round and more above firstUnchecked
RoundsFrom(kr) ==
    {r \in Probe \cup Window(kr)
            \cup {U64(kr.lastChecked + 1), U64(kr.firstUnchecked + KLen(kr)),
                  U64(kr.firstUnchecked + RoundMod \div 2 + 1)} :
        r >= kr.firstUnchecked}

\* C35: after any sequence of NewKnownRound, Check, ForceCheck, Forward and
\* successful Unmarshal into a buffer that is not empty, 0 <= fuPos < C and
\* fuPos mod 64 = firstUnchecked mod 64, and getBitStreamPos(rid) lies in
\* [0, C) for every rid >= firstUnchecked.
C35_PositionsInBuffer ==
    Len(bitStream) > 0 =>
        /\ 0 <= fuPos
        /\ fuPos < KLen(KR)
        /\ fuPos % WordBits = firstUnchecked % WordBits
        /\ \A rid \in RoundsFrom(KR) :
                /\ 0 <= getBitStreamPos(KR, rid)
                /\ getBitStreamPos(KR, rid) < KLen(KR)

====
